---- MODULE Spec2Model ----
(***************************************************************************)
(* A model of androidtestorchestrator's Application lifecycle              *)
(* (application.py): installation under the device install lock, launch    *)
(* with crash/readiness detection over the log stream, permission          *)
(* management, termination and instrumentation runs; and of the one-shot   *)
(* Timer of timing.py.                                                     *)
(*                                                                         *)
(* The specifications of this module, one per part of the component:       *)
(*   InstallSpec  from_apk / from_apk_async / _monitor_install             *)
(*   FairInstallSpec  InstallSpec with the event loop and device running   *)
(*   LaunchSpec   Application.launch                                       *)
(*   PermSpec     grant_permissions / regrant_permissions / clear_data     *)
(*   LifeSpec     __init__, stop, clean_kill, version, uninstall, from_apk *)
(*   ForegroundSpec  Application.in_foreground                             *)
(*   RunSpec      TestApplication.run / run_orchestrated                   *)
(*   TimerSpec    Timer.mark_start / mark_end on the event loop            *)
(*   FairTimerSpec  TimerSpec with the event loop running                  *)
(* Each leaves the variables of the other parts at their idle values.      *)
(*                                                                         *)
(* The device boundary of device.py (Device, _device_lock,                 *)
(* AsyncProcessContext) is an external collaborator: the model takes what  *)
(* it needs of it from the component's written specification (a scoped     *)
(* device lock, a process scope, the dangerous-permission set).            *)
(***************************************************************************)
EXTENDS Integers, Sequences, FiniteSets, TLC

VARIABLES
    \* ---- installation --------------------------------------------------
    inp,        \* per install call: its arguments (form, variant, manifest, callback)
    pc,         \* per install call: position in from_apk(_async) / _monitor_install
    how,        \* per install call: the way the install step ended
    outcome,    \* per install call: "pending", "returned" or the failure raised
    entity,     \* per install call: the object the factory returned
    lock,       \* the device install lock: 0 when free, else the call holding it
    proc,       \* per install call: state of its 'pm install' process
    tmpfiles,   \* packages whose /data/local/tmp/<package> exists on the device
    installed,  \* the device's installed-package list
    trace,      \* per install call: the steps it has taken on the device, in order
    \* ---- launch --------------------------------------------------------
    stream,     \* the lines the logcat process emits, in order
    streamEnds, \* TRUE: the stream ends after them; FALSE: it stays silent
    timeout,    \* launch's timeout argument: TRUE when one was given
    lpc,        \* position in launch
    pos,        \* number of lines consumed from the stream
    count,      \* launch's local 'count'
    detected_fatal_exception,
    startedAt,  \* -1, or the number of lines consumed when 'am start' was issued
    lresult,    \* "pending", "returned", "crashed" or "timeout"
    \* ---- permissions ---------------------------------------------------
    permissions,          \* Application._permissions (declared in the manifest)
    granted_permissions,  \* Application._granted_permissions
    device_granted,       \* permissions the device holds as granted to the package
    last,                 \* the last call made on the application
    again,                \* the last call repeated the call before it
    pre_granted,          \* granted_permissions as it was before the last call
    issued,               \* 'pm grant' commands the last call issued, per permission
    failed,               \* the permissions whose 'pm grant' failed in the last call
    ret,                  \* the set the last call returned ({} for None)
    \* ---- one application object and the calls made on it --------------
    ctor,       \* the constructor call: the class and the manifest argument
    app,        \* the object it built, or the failure it raised
    called,     \* the last call made on the object, with the device's answers
    result,     \* what that call raised, issued and returned
    before,     \* the object as it was before that call
    \* ---- one Timer on the event loop -----------------------------------
    t_future,     \* Timer._future: "future" (the one made in __init__) or "None"
    fut,          \* that future's state: "pending", "result" or "cancelled"
    t_task,       \* Timer._task: 0 for None, else the task mark_start made last
    tpc,          \* per timer task: position in timer() / asyncio.wait_for
    cancel_req,   \* per timer task: Task.cancel() was called on it
    elapsed,      \* per timer task: the duration has passed since its wait began
    loop_stopped, \* the event loop's stop() was called
    ended,        \* how the last mark_end ended
    end_called,   \* mark_end was called at least once
    in_time       \* mark_end was called after a mark_start, no wait having run out

installVars == <<inp, pc, how, outcome, entity, lock, proc, tmpfiles, installed,
                 trace>>
launchVars  == <<stream, streamEnds, timeout, lpc, pos, count,
                 detected_fatal_exception, startedAt, lresult>>
permVars    == <<permissions, granted_permissions, device_granted, last, again,
                 pre_granted, issued, failed, ret>>
lifeVars    == <<ctor, app, called, result, before>>
timerVars   == <<t_future, fut, t_task, tpc, cancel_req, elapsed, loop_stopped,
                 ended, end_called, in_time>>
vars        == <<installVars, launchVars, permVars, lifeVars, timerVars>>

----------------------------------------------------------------------------
(* Bounds *)

\* number of concurrent install calls on the one device
NumInstalls == 2
\* longest log stream given to launch
MaxLines == 5
\* number of mark_start calls made on the one timer
MaxStarts == 2
\* deepest activity stack the device reports to in_foreground
MaxStack == 3

----------------------------------------------------------------------------
(* Manifests and entities: Application.__init__, TestApplication.__init__ *)

Packages == {"com.example.app", "com.example.test"}
Variants == {"Application", "ServiceApplication", "TestApplication"}

NoInstrumentation == [present |-> FALSE, target_package |-> "", runner |-> ""]
Instrumentations ==
    {NoInstrumentation} \cup
    [present : {TRUE}, target_package : {"", "com.example.app"}, runner : {"", "Runner"}]

\* what AXMLParser.parse yields for an apk, as far as the component reads it
Manifests ==
    [package_name : Packages \cup {""}, permissions : {{}}, instrumentation : Instrumentations]

Raised(e) == [ok |-> FALSE, error |-> e]

\* a constructor without the check of the package name
ApplicationInit_AcceptsEmpty(cls, manifest) ==
    [ok |-> TRUE, cls |-> cls,
     package_name |-> manifest.package_name,
     permissions |-> manifest.permissions,
     granted_permissions |-> {},
     version |-> "None"]

\* Application.__init__: fails on an empty package name; granted set starts empty
ApplicationInit(cls, manifest) ==
    IF manifest.package_name = ""
    THEN Raised("ValueError")
    ELSE [ok |-> TRUE, cls |-> cls,
          package_name |-> manifest.package_name,
          permissions |-> manifest.permissions,
          granted_permissions |-> {},
          version |-> "None"]

\* a TestApplication constructor whose check forgets the runner
TestApplicationInit_RunnerUnchecked(cls, manifest) ==
    LET base  == ApplicationInit(cls, manifest)
        instr == manifest.instrumentation
        valid == instr.present /\ instr.target_package # ""
    IN  IF ~base.ok THEN base
        ELSE IF ~valid THEN Raised("InstrumentationError")
        ELSE [ok |-> TRUE, cls |-> cls,
              package_name |-> base.package_name,
              permissions |-> manifest.permissions,
              granted_permissions |-> base.granted_permissions,
              version |-> base.version,
              runner |-> instr.runner,
              target_application |->
                  ApplicationInit("Application",
                      [package_name |-> instr.target_package, permissions |-> {}])]

\* TestApplication.__init__: the base constructor, then the instrumentation check
TestApplicationInit(cls, manifest) ==
    LET base  == ApplicationInit(cls, manifest)
        instr == manifest.instrumentation
        valid == instr.present /\ instr.target_package # "" /\ instr.runner # ""
    IN  IF ~base.ok THEN base
        ELSE IF ~valid THEN Raised("InstrumentationError")
        ELSE [ok |-> TRUE, cls |-> cls,
              package_name |-> base.package_name,
              permissions |-> manifest.permissions,
              granted_permissions |-> base.granted_permissions,
              version |-> base.version,
              runner |-> instr.runner,
              target_application |->
                  ApplicationInit("Application",
                      [package_name |-> instr.target_package, permissions |-> {}])]

\* a factory that names the base class instead of cls
Construct_AlwaysBase(cls, manifest) == ApplicationInit("Application", manifest)

\* cls(device, parser): the constructor of the variant the factory was called on
Construct(cls, manifest) ==
    IF cls = "TestApplication"
    THEN TestApplicationInit(cls, manifest)
    ELSE ApplicationInit(cls, manifest)

NoEntity == [ok |-> FALSE, error |-> "none"]

----------------------------------------------------------------------------
(* Installation: from_apk, from_apk_async, _monitor_install *)

Tasks == 1..NumInstalls

Inputs == [form : {"async", "sync"}, cls : Variants, manifest : Manifests,
           callback : BOOLEAN]

Pkg(t) == inp[t].manifest.package_name

\* _device_lock: a scoped acquisition, entered only while no one holds the lock
DeviceLockFree == lock = 0

\* AsyncProcessContext exit: leaving the scope ends a process still running and
\* closes the handle of one that was started
ProcessContextExit(p) == IF p = "none" THEN "none" ELSE "closed"

\* the finally clause of _monitor_install: rm of the temp file, failures suppressed
RemoveTemp(files, package, rm_ok) == IF rm_ok THEN files \ {package} ELSE files

\* return cls(device, parser) at the end of the factory
FactoryReturn(t) ==
    LET r == Construct(inp[t].cls, inp[t].manifest)
    IN  /\ entity' = [entity EXCEPT ![t] = IF r.ok THEN r ELSE NoEntity]
        /\ outcome' = [outcome EXCEPT ![t] = IF r.ok THEN "returned" ELSE r.error]

InstallFrame == UNCHANGED <<launchVars, permVars, lifeVars, timerVars>>

\* the step 'rm /data/local/tmp/<package>', as it went
Rm(rm_ok) == IF rm_ok THEN "rm" ELSE "rm failed"

\* the call t took these steps, in this order
Did(t, steps) == trace' = [trace EXCEPT ![t] = @ \o steps]

\* a failed push that is only noted, the install going on to the lock
Push_GoesOn(t) ==
    /\ pc[t] = "init" /\ inp[t].form = "async"
    /\ \E push_ok \in BOOLEAN :
         /\ tmpfiles' = IF push_ok THEN tmpfiles \cup {Pkg(t)} ELSE tmpfiles
         /\ how' = [how EXCEPT ![t] = IF push_ok THEN @ ELSE "push_failed"]
         /\ pc' = [pc EXCEPT ![t] = "acquire"]
         /\ Did(t, <<"push">>)
    /\ UNCHANGED <<inp, outcome, entity, lock, proc, installed>>
    /\ InstallFrame

\* _monitor_install up to the lock: parse, push to /data/local/tmp/<package>.
\* A failed push raises IOError; the finally clause then removes the temp path.
Push(t) ==
    /\ pc[t] = "init" /\ inp[t].form = "async"
    /\ \E push_ok \in BOOLEAN, rm_ok \in BOOLEAN :
         IF push_ok
         THEN /\ tmpfiles' = tmpfiles \cup {Pkg(t)}
              /\ pc' = [pc EXCEPT ![t] = "acquire"]
              /\ Did(t, <<"push">>)
              /\ UNCHANGED <<how, outcome>>
         ELSE /\ tmpfiles' = RemoveTemp(tmpfiles, Pkg(t), rm_ok)
              /\ Did(t, <<"push", Rm(rm_ok)>>)
              /\ pc' = [pc EXCEPT ![t] = "done"]
              /\ how' = [how EXCEPT ![t] = "push_failed"]
              /\ outcome' = [outcome EXCEPT ![t] = "IOError"]
    /\ UNCHANGED <<inp, entity, lock, proc, installed>>
    /\ InstallFrame

\* the install started without taking the device lock
Acquire_NoLock(t) ==
    /\ pc[t] = "acquire"
    /\ pc' = [pc EXCEPT ![t] = "starting"]
    /\ UNCHANGED <<inp, how, outcome, entity, lock, proc, tmpfiles, installed, trace>>
    /\ InstallFrame

\* async with _device_lock(device): entered once the lock is free
Acquire(t) ==
    /\ pc[t] = "acquire"
    /\ DeviceLockFree
    /\ lock' = t
    /\ pc' = [pc EXCEPT ![t] = "starting"]
    /\ Did(t, <<"lock">>)
    /\ UNCHANGED <<inp, how, outcome, entity, proc, tmpfiles, installed>>
    /\ InstallFrame

\* the callback called before the process scope is entered
StartProc_CallbackFirst(t) ==
    /\ pc[t] = "starting"
    /\ \E start_ok \in BOOLEAN :
         IF ~start_ok
         THEN /\ how' = [how EXCEPT ![t] = "start_failed"]
              /\ pc' = [pc EXCEPT ![t] = "exiting"]
              /\ proc' = proc
              /\ Did(t, IF inp[t].callback THEN <<"callback">> ELSE <<>>)
         ELSE /\ proc' = [proc EXCEPT ![t] = "running"]
              /\ how' = how
              /\ pc' = [pc EXCEPT ![t] = "waiting"]
              /\ Did(t, IF inp[t].callback
                        THEN <<"callback", "pm install", "wait">>
                        ELSE <<"pm install", "wait">>)
    /\ UNCHANGED <<inp, outcome, entity, lock, tmpfiles, installed>>
    /\ InstallFrame

\* device.monitor_remote_cmd("shell", "pm", "install", ...) is entered, then the
\* callback, if any, is called with the process before its completion is awaited
StartProc(t) ==
    /\ pc[t] = "starting"
    /\ \E start_ok \in BOOLEAN, cb_ok \in BOOLEAN :
         IF ~start_ok
         THEN /\ how' = [how EXCEPT ![t] = "start_failed"]
              /\ pc' = [pc EXCEPT ![t] = "exiting"]
              /\ UNCHANGED <<proc, trace>>
         ELSE /\ proc' = [proc EXCEPT ![t] = "running"]
              /\ IF inp[t].callback /\ ~cb_ok
                 THEN /\ how' = [how EXCEPT ![t] = "callback_raised"]
                      /\ pc' = [pc EXCEPT ![t] = "exiting"]
                      /\ Did(t, <<"pm install", "callback">>)
                 ELSE /\ how' = how
                      /\ pc' = [pc EXCEPT ![t] = "waiting"]
                      /\ Did(t, IF inp[t].callback
                                THEN <<"pm install", "callback", "wait">>
                                ELSE <<"pm install", "wait">>)
    /\ UNCHANGED <<inp, outcome, entity, lock, tmpfiles, installed>>
    /\ InstallFrame

\* the device: the install process ends by itself; code 0 needs the pushed file
\* and a package name, and the package may or may not show up in the installed
\* list
ProcExit(t) ==
    /\ proc[t] = "running"
    /\ \E rc \in {0, 1}, visible \in BOOLEAN :
         /\ rc = 0 => (Pkg(t) \in tmpfiles /\ Pkg(t) # "")
         /\ proc' = [proc EXCEPT ![t] = IF rc = 0 THEN "exit0" ELSE "exit1"]
         /\ installed' = IF rc = 0 /\ visible THEN installed \cup {Pkg(t)} ELSE installed
    /\ UNCHANGED <<inp, pc, how, outcome, entity, lock, tmpfiles, trace>>
    /\ InstallFrame

\* await proc.wait(timeout=...) returns; a non-zero return code raises
WaitReturns(t) ==
    /\ pc[t] = "waiting"
    /\ proc[t] \in {"exit0", "exit1"}
    /\ how' = [how EXCEPT ![t] = IF proc[t] = "exit0" THEN "exit_zero" ELSE "exit_nonzero"]
    /\ pc' = [pc EXCEPT ![t] = "exiting"]
    /\ UNCHANGED <<inp, outcome, entity, lock, proc, tmpfiles, installed, trace>>
    /\ InstallFrame

\* await proc.wait(timeout=...) times out while the process still runs
WaitTimeout(t) ==
    /\ pc[t] = "waiting"
    /\ proc[t] = "running"
    /\ how' = [how EXCEPT ![t] = "wait_timeout"]
    /\ pc' = [pc EXCEPT ![t] = "exiting"]
    /\ UNCHANGED <<inp, outcome, entity, lock, proc, tmpfiles, installed, trace>>
    /\ InstallFrame

\* the task awaiting the install is cancelled at one of its suspension points
Cancel(t) ==
    /\ pc[t] \in {"acquire", "starting", "waiting"}
    /\ how' = [how EXCEPT ![t] = "cancelled"]
    /\ IF pc[t] = "acquire"
       THEN \E rm_ok \in BOOLEAN :
              /\ tmpfiles' = RemoveTemp(tmpfiles, Pkg(t), rm_ok)
              /\ Did(t, <<Rm(rm_ok)>>)
              /\ pc' = [pc EXCEPT ![t] = "done"]
              /\ outcome' = [outcome EXCEPT ![t] = "CancelledError"]
       ELSE /\ pc' = [pc EXCEPT ![t] = "exiting"]
            /\ UNCHANGED <<tmpfiles, outcome, trace>>
    /\ UNCHANGED <<inp, entity, lock, proc, installed>>
    /\ InstallFrame

\* the failure _monitor_install raises for each way its body was left
FailureOf(h) ==
    CASE h = "exit_nonzero"    -> "CommandExecutionFailure"
      [] h = "wait_timeout"    -> "TimeoutError"
      [] h = "callback_raised" -> "CallbackError"
      [] h = "cancelled"       -> "CancelledError"
      [] h = "start_failed"    -> "StartFailure"
      [] OTHER                 -> "none"

\* the lock released by a statement at the end of the body instead of by the
\* scope, so that a body that raises skips the release
ExitContexts_ReleaseAtEndOfBody(t) ==
    /\ pc[t] = "exiting"
    /\ proc' = [proc EXCEPT ![t] = ProcessContextExit(proc[t])]
    /\ lock' = IF how[t] = "exit_zero" THEN 0 ELSE lock
    /\ \E rm_ok \in BOOLEAN :
         /\ tmpfiles' = RemoveTemp(tmpfiles, Pkg(t), rm_ok)
         /\ Did(t, IF how[t] = "exit_zero" THEN <<"unlock", Rm(rm_ok)>>
                                           ELSE <<Rm(rm_ok)>>)
    /\ IF how[t] = "exit_zero"
       THEN FactoryReturn(t)
       ELSE /\ outcome' = [outcome EXCEPT ![t] = FailureOf(how[t])]
            /\ entity' = entity
    /\ pc' = [pc EXCEPT ![t] = "done"]
    /\ UNCHANGED <<inp, how, installed>>
    /\ InstallFrame

\* the temp file removed at the end of the body instead of in a finally clause,
\* so that a body that raises skips the removal
ExitContexts_RmAtEndOfBody(t) ==
    /\ pc[t] = "exiting"
    /\ proc' = [proc EXCEPT ![t] = ProcessContextExit(proc[t])]
    /\ lock' = 0
    /\ IF how[t] = "exit_zero"
       THEN /\ \E rm_ok \in BOOLEAN :
                 /\ tmpfiles' = RemoveTemp(tmpfiles, Pkg(t), rm_ok)
                 /\ Did(t, <<"unlock", Rm(rm_ok)>>)
            /\ FactoryReturn(t)
       ELSE /\ outcome' = [outcome EXCEPT ![t] = FailureOf(how[t])]
            /\ Did(t, <<"unlock">>)
            /\ UNCHANGED <<entity, tmpfiles>>
    /\ pc' = [pc EXCEPT ![t] = "done"]
    /\ UNCHANGED <<inp, how, installed>>
    /\ InstallFrame

\* the entity constructed and returned whatever way the install step ended
ExitContexts_ReturnsAlways(t) ==
    /\ pc[t] = "exiting"
    /\ proc' = [proc EXCEPT ![t] = ProcessContextExit(proc[t])]
    /\ lock' = 0
    /\ \E rm_ok \in BOOLEAN :
         /\ tmpfiles' = RemoveTemp(tmpfiles, Pkg(t), rm_ok)
         /\ Did(t, <<"unlock", Rm(rm_ok)>>)
    /\ FactoryReturn(t)
    /\ pc' = [pc EXCEPT ![t] = "done"]
    /\ UNCHANGED <<inp, how, installed>>
    /\ InstallFrame

\* leaving the async with: the process scope, then the lock scope, are exited;
\* then the finally clause, then from_apk_async constructs the entity or the
\* failure propagates
ExitContexts(t) ==
    /\ pc[t] = "exiting"
    /\ proc' = [proc EXCEPT ![t] = ProcessContextExit(proc[t])]
    /\ lock' = 0
    /\ \E rm_ok \in BOOLEAN :
         /\ tmpfiles' = RemoveTemp(tmpfiles, Pkg(t), rm_ok)
         /\ Did(t, <<"unlock", Rm(rm_ok)>>)
    /\ IF how[t] = "exit_zero"
       THEN FactoryReturn(t)
       ELSE /\ outcome' = [outcome EXCEPT ![t] = FailureOf(how[t])]
            /\ entity' = entity
    /\ pc' = [pc EXCEPT ![t] = "done"]
    /\ UNCHANGED <<inp, how, installed>>
    /\ InstallFrame

\* from_apk going through the temp path as _monitor_install does
FromApk_ViaTemp(t) ==
    /\ pc[t] = "init" /\ inp[t].form = "sync"
    /\ \E install_ok \in BOOLEAN, visible \in BOOLEAN, rm_ok \in BOOLEAN :
         /\ IF install_ok /\ Pkg(t) # ""
            THEN /\ installed' = IF visible THEN installed \cup {Pkg(t)} ELSE installed
                 /\ how' = [how EXCEPT ![t] = "exit_zero"]
                 /\ FactoryReturn(t)
            ELSE /\ installed' = installed
                 /\ how' = [how EXCEPT ![t] = "exit_nonzero"]
                 /\ outcome' = [outcome EXCEPT ![t] = "CommandExecutionFailure"]
                 /\ entity' = entity
         /\ Did(t, <<"push", "pm install", Rm(rm_ok)>>)
    /\ pc' = [pc EXCEPT ![t] = "done"]
    /\ UNCHANGED <<inp, lock, proc, tmpfiles>>
    /\ InstallFrame

\* from_apk: _install runs 'adb install <apk>' and blocks; then the constructor
FromApk(t) ==
    /\ pc[t] = "init" /\ inp[t].form = "sync"
    /\ \E install_ok \in BOOLEAN, visible \in BOOLEAN :
         IF install_ok /\ Pkg(t) # ""
         THEN /\ installed' = IF visible THEN installed \cup {Pkg(t)} ELSE installed
              /\ how' = [how EXCEPT ![t] = "exit_zero"]
              /\ FactoryReturn(t)
         ELSE /\ installed' = installed
              /\ how' = [how EXCEPT ![t] = "exit_nonzero"]
              /\ outcome' = [outcome EXCEPT ![t] = "CommandExecutionFailure"]
              /\ entity' = entity
    /\ pc' = [pc EXCEPT ![t] = "done"]
    /\ Did(t, <<"adb install">>)
    /\ UNCHANGED <<inp, lock, proc, tmpfiles>>
    /\ InstallFrame

\* The calls made: either one call of any form, variant and manifest, or
\* NumInstalls concurrent asynchronous installs of plain applications (the
\* first of them of com.example.app, and only it possibly with a callback: the
\* package names and the calls are interchangeable).
PlainInputs ==
    {i \in Inputs : /\ i.form = "async" /\ i.cls = "Application"
                    /\ i.manifest.package_name # ""
                    /\ i.manifest.instrumentation = NoInstrumentation}

IdleInput == [form |-> "async", cls |-> "Application",
              manifest |-> [package_name |-> "com.example.app", permissions |-> {},
                            instrumentation |-> NoInstrumentation],
              callback |-> FALSE]

InstallCallsIdle ==
    /\ inp = [t \in Tasks |-> IdleInput]
    /\ pc = [t \in Tasks |-> "absent"]
    /\ how = [t \in Tasks |-> "none"]
    /\ outcome = [t \in Tasks |-> "pending"]
    /\ entity = [t \in Tasks |-> NoEntity]
    /\ lock = 0
    /\ proc = [t \in Tasks |-> "none"]
    /\ tmpfiles = {}
    /\ trace = [t \in Tasks |-> <<>>]

InstallIdle == InstallCallsIdle /\ installed = {}

InstallInit ==
    /\ \/ /\ inp \in [Tasks -> PlainInputs]
          /\ Pkg(1) = "com.example.app"
          /\ \A t \in Tasks : inp[t].callback => t = 1
          /\ pc = [t \in Tasks |-> "init"]
       \/ /\ \E i \in Inputs : inp = [t \in Tasks |-> IF t = 1 THEN i ELSE IdleInput]
          /\ pc = [t \in Tasks |-> IF t = 1 THEN "init" ELSE "absent"]
    /\ how = [t \in Tasks |-> "none"]
    /\ outcome = [t \in Tasks |-> "pending"]
    /\ entity = [t \in Tasks |-> NoEntity]
    /\ lock = 0
    /\ proc = [t \in Tasks |-> "none"]
    /\ tmpfiles = {}
    /\ trace = [t \in Tasks |-> <<>>]
    /\ installed = {}

\* what the running event loop and the device do to a call on their own:
\* every step but the cancellation, which is the caller's
InstallStep(t) ==
    \/ Push(t)
    \/ Acquire(t)
    \/ StartProc(t)
    \/ ProcExit(t)
    \/ WaitReturns(t)
    \/ WaitTimeout(t)
    \/ ExitContexts(t)
    \/ FromApk(t)

InstallNext ==
    \E t \in Tasks :
       \/ Push(t)
       \/ Acquire(t)
       \/ StartProc(t)
       \/ ProcExit(t)
       \/ WaitReturns(t)
       \/ WaitTimeout(t)
       \/ Cancel(t)
       \/ ExitContexts(t)
       \/ FromApk(t)

----------------------------------------------------------------------------
(* Launch: Application.launch *)

\* what launch looks for in a line
FATAL == "FATAL EXCEPTION"
PROCESS == "Process"
DISPLAYED == "Displayed"
PACKAGE == "com.example.app"

\* A log line, as the set of the texts above that occur in it.  {DISPLAYED} is
\* a Displayed line of another package; {DISPLAYED, PROCESS, PACKAGE} is a
\* Displayed line of the package whose text also holds "Process" (in the name
\* of the activity or of the package); {} is any other line.
LineKinds ==
    { {}, {FATAL}, {PROCESS, PACKAGE}, {DISPLAYED, PACKAGE}, {DISPLAYED},
      {FATAL, PROCESS, PACKAGE}, {DISPLAYED, PROCESS, PACKAGE} }

\* '"text" in line'
In(text, line) == text \in line

Streams == UNION {[1..n -> LineKinds] : n \in 0..MaxLines}

\* the first loop of launch breaks once count == 2
CatchCount == 2

LaunchFrame == UNCHANGED <<installVars, permVars, lifeVars, timerVars>>

LaunchIdle ==
    /\ stream = <<>>
    /\ streamEnds = TRUE
    /\ timeout = FALSE
    /\ lpc = "idle"
    /\ pos = 0
    /\ count = 0
    /\ detected_fatal_exception = FALSE
    /\ startedAt = -1
    /\ lresult = "pending"

LaunchInit ==
    /\ stream \in Streams
    /\ streamEnds \in BOOLEAN
    /\ timeout \in BOOLEAN
    /\ lpc = "open"
    /\ pos = 0
    /\ count = 0
    /\ detected_fatal_exception = FALSE
    /\ startedAt = -1
    /\ lresult = "pending"

\* async with self.device.monitor_remote_cmd("logcat", ...) as logcat_proc
LaunchOpen ==
    /\ lpc = "open"
    /\ lpc' = "catch"
    /\ UNCHANGED <<stream, streamEnds, timeout, pos, count,
                   detected_fatal_exception, startedAt, lresult>>
    /\ LaunchFrame

\* self.start(activity, ...): 'am start' is issued; its failure propagates
Start(start_ok, consumed) ==
    /\ startedAt' = consumed
    /\ detected_fatal_exception' = FALSE
    /\ IF start_ok
       THEN lpc' = "scan" /\ lresult' = lresult
       ELSE lpc' = "done" /\ lresult' = "start_failed"

\* one iteration of the first loop: a line is consumed and counted, and the
\* loop is left at the second one; the loop also ends when the stream does.
\* Either way the start command comes next.
LaunchCatch ==
    /\ lpc = "catch"
    /\ \E start_ok \in BOOLEAN :
         IF pos < Len(stream)
         THEN /\ pos' = pos + 1
              /\ count' = count + 1
              /\ IF count + 1 = CatchCount
                 THEN Start(start_ok, pos + 1)
                 ELSE UNCHANGED <<lpc, detected_fatal_exception, startedAt, lresult>>
         ELSE /\ streamEnds
              /\ UNCHANGED <<pos, count>>
              /\ Start(start_ok, pos)
    /\ UNCHANGED <<stream, streamEnds, timeout>>
    /\ LaunchFrame

\* the flag kept only for the line at hand
ScanLine_FlagNotKept(line, flag) ==
    LET armed == In(FATAL, line)
    IN  [flag |-> armed,
         verdict |-> IF armed /\ In(PROCESS, line) /\ In(PACKAGE, line)
                     THEN "crashed"
                     ELSE IF In(DISPLAYED, line) /\ In(PACKAGE, line)
                     THEN "displayed"
                     ELSE "continue"]

\* the body of the second loop, for one line
ScanLine(line, flag) ==
    LET armed == flag \/ In(FATAL, line)
    IN  [flag |-> armed,
         verdict |-> IF armed /\ In(PROCESS, line) /\ In(PACKAGE, line)
                     THEN "crashed"
                     ELSE IF In(DISPLAYED, line) /\ In(PACKAGE, line)
                     THEN "displayed"
                     ELSE "continue"]

\* one iteration of the second loop; the loop also ends, and launch returns,
\* when the stream does
LaunchScan ==
    /\ lpc = "scan"
    /\ IF pos < Len(stream)
       THEN LET r == ScanLine(stream[pos + 1], detected_fatal_exception)
            IN  /\ pos' = pos + 1
                /\ detected_fatal_exception' = r.flag
                /\ lpc' = IF r.verdict = "continue" THEN "scan" ELSE "done"
                /\ lresult' = CASE r.verdict = "crashed"   -> "crashed"
                                [] r.verdict = "displayed" -> "returned"
                                [] OTHER                   -> lresult
       ELSE /\ streamEnds
            /\ lpc' = "done"
            /\ lresult' = "returned"
            /\ UNCHANGED <<pos, detected_fatal_exception>>
    /\ UNCHANGED <<stream, streamEnds, timeout, count, startedAt>>
    /\ LaunchFrame

\* asyncio.wait_for(launch(), timeout), or the wait for the next line, expires
LaunchTimeout ==
    /\ timeout
    /\ lpc \in {"open", "catch", "scan"}
    /\ lpc' = "done"
    /\ lresult' = "timeout"
    /\ UNCHANGED <<stream, streamEnds, timeout, pos, count,
                   detected_fatal_exception, startedAt>>
    /\ LaunchFrame

LaunchNext == LaunchOpen \/ LaunchCatch \/ LaunchScan \/ LaunchTimeout

----------------------------------------------------------------------------
(* Permissions: grant_permissions, regrant_permissions, clear_data *)

CAMERA == "android.permission.CAMERA"
LOCATION == "android.permission.ACCESS_FINE_LOCATION"
INTERNET == "android.permission.INTERNET"
PADDED_CAMERA == " android.permission.CAMERA"

\* the permission strings callers and manifests use
PermStrings == {CAMERA, LOCATION, INTERNET, PADDED_CAMERA}

\* Device.DANGEROUS_PERMISSIONS: the permissions that need a runtime grant
DANGEROUS_PERMISSIONS == {CAMERA, LOCATION}

\* str.strip()
Strip(p) == IF p = PADDED_CAMERA THEN CAMERA ELSE p

EmptyBag == [p \in {} |-> 0]
BagAdd(b, p) ==
    [q \in DOMAIN b \cup {p} |->
        IF q = p THEN (IF p \in DOMAIN b THEN b[p] + 1 ELSE 1) ELSE b[q]]

\* a grant loop without its try/except: the first failing 'pm grant' ends it
RECURSIVE GrantEach_StopsAtFailure(_, _, _)
GrantEach_StopsAtFailure(todo, failing, st) ==
    IF todo = {} THEN st
    ELSE LET p == CHOOSE x \in todo : TRUE
         IN  IF p \in failing
             THEN [st EXCEPT !.issued = BagAdd(st.issued, p)]
             ELSE GrantEach_StopsAtFailure(todo \ {p}, failing,
                      [granted |-> st.granted \cup {p},
                       device  |-> st.device \cup {p},
                       issued  |-> BagAdd(st.issued, p)])

\* the grant loop: one 'pm grant' per permission, failed or not, each recorded
RECURSIVE GrantEach(_, _, _)
GrantEach(todo, failing, st) ==
    IF todo = {} THEN st
    ELSE LET p == CHOOSE x \in todo : TRUE
         IN  GrantEach(todo \ {p}, failing,
                 [granted |-> st.granted \cup {p},
                  device  |-> IF p \in failing THEN st.device ELSE st.device \cup {p},
                  issued  |-> BagAdd(st.issued, p)])

\* permissions_filtered of grant_permissions
Filtered(requested) ==
    LET perms == IF requested = {} THEN permissions ELSE requested
    IN  {Strip(p) : p \in {q \in perms : q \in DANGEROUS_PERMISSIONS}}

\* the application's recorded set and the device's, as the operations see them
Now == [granted |-> granted_permissions, device |-> device_granted]

Unchanged(st) == [granted |-> st.granted, device |-> st.device,
                  issued |-> EmptyBag, ret |-> {}]

\* a grant that records only what was not recorded before, in place of the set
GrantPermissions_RecordsNewOnly(requested, failing, st) ==
    LET filtered == Filtered(requested)
    IN  IF filtered = {}
        THEN Unchanged(st)
        ELSE LET r == GrantEach(filtered, failing,
                         [granted |-> {}, device |-> st.device, issued |-> EmptyBag])
                 new == r.granted \ st.granted
             IN  [granted |-> new, device |-> r.device, issued |-> r.issued,
                  ret |-> new]

\* a grant that returns the recorded set even when it has nothing to grant
GrantPermissions_ReturnsRecorded(requested, failing, st) ==
    LET filtered == Filtered(requested)
    IN  IF filtered = {}
        THEN [Unchanged(st) EXCEPT !.ret = st.granted]
        ELSE LET r == GrantEach(filtered, failing,
                         [granted |-> st.granted, device |-> st.device,
                          issued |-> EmptyBag])
             IN  [granted |-> r.granted, device |-> r.device,
                  issued |-> r.issued, ret |-> r.granted]

\* grant_permissions(permissions): the state it leaves and the set it returns
GrantPermissions(requested, failing, st) ==
    LET filtered == Filtered(requested)
    IN  IF filtered = {}
        THEN Unchanged(st)
        ELSE LET r == GrantEach(filtered, failing,
                         [granted |-> st.granted, device |-> st.device,
                          issued |-> EmptyBag])
             IN  [granted |-> r.granted, device |-> r.device,
                  issued |-> r.issued, ret |-> r.granted]

\* regrant_permissions(): grant_permissions(self._granted_permissions)
RegrantPermissions(failing, st) == GrantPermissions(st.granted, failing, st)

\* a clear_data without its else branch: the recorded set is kept
ClearData_KeepsRecorded(regrant, clear_ok, failing, st) ==
    IF ~clear_ok
    THEN Unchanged(st)
    ELSE IF regrant
    THEN LET r == RegrantPermissions(failing, [granted |-> st.granted, device |-> {}])
         IN  [r EXCEPT !.ret = {}]
    ELSE [granted |-> st.granted, device |-> {}, issued |-> EmptyBag, ret |-> {}]

\* clear_data(regrant_permissions): 'pm clear', whose failure propagates and
\* which takes the package's runtime grants with it; then the regrant, or the
\* reset of the recorded set
ClearData(regrant, clear_ok, failing, st) ==
    IF ~clear_ok
    THEN Unchanged(st)
    ELSE IF regrant
    THEN LET r == RegrantPermissions(failing, [granted |-> st.granted, device |-> {}])
         IN  [r EXCEPT !.ret = {}]
    ELSE [granted |-> {}, device |-> {}, issued |-> EmptyBag, ret |-> {}]

PermFrame == UNCHANGED <<installVars, launchVars, lifeVars, timerVars>>

PermIdle ==
    /\ permissions = {}
    /\ granted_permissions = {}
    /\ device_granted = {}
    /\ last = [op |-> "none"]
    /\ again = FALSE
    /\ pre_granted = {}
    /\ issued = EmptyBag
    /\ failed = {}
    /\ ret = {}

\* a freshly constructed application: any declared set, nothing granted
PermInit ==
    /\ permissions \in SUBSET PermStrings
    /\ granted_permissions = {}
    /\ device_granted = {}
    /\ last = [op |-> "none"]
    /\ again = FALSE
    /\ pre_granted = {}
    /\ issued = EmptyBag
    /\ failed = {}
    /\ ret = {}

Apply(r, call, failing) ==
    /\ pre_granted' = granted_permissions
    /\ granted_permissions' = r.granted
    /\ device_granted' = r.device
    /\ issued' = r.issued
    /\ failed' = failing \cap DOMAIN r.issued
    /\ ret' = r.ret
    /\ again' = (call.op = "grant_permissions" /\ last = call)
    /\ last' = call
    /\ UNCHANGED permissions

\* app.grant_permissions(requested); {} stands for None and for an empty list
GrantCall ==
    \E requested \in SUBSET PermStrings :
    \E failing \in SUBSET Filtered(requested) :
        /\ Apply(GrantPermissions(requested, failing, Now),
                 [op |-> "grant_permissions", arg |-> requested, raised |-> FALSE],
                 failing)
        /\ PermFrame

\* app.regrant_permissions()
RegrantCall ==
    \E failing \in SUBSET Filtered(granted_permissions) :
        /\ Apply(RegrantPermissions(failing, Now),
                 [op |-> "regrant_permissions", arg |-> {}, raised |-> FALSE],
                 failing)
        /\ PermFrame

\* app.clear_data(regrant_permissions)
ClearDataCall ==
    \E regrant \in BOOLEAN, clear_ok \in BOOLEAN :
    \E failing \in SUBSET Filtered(granted_permissions) :
        /\ Apply(ClearData(regrant, clear_ok, failing, Now),
                 [op |-> "clear_data", arg |-> regrant, raised |-> ~clear_ok],
                 failing)
        /\ PermFrame

PermNext == GrantCall \/ RegrantCall \/ ClearDataCall

----------------------------------------------------------------------------
(* One application object: __init__, stop, clean_kill, version *)

\* dict.get(key, default)
Get(d, key, default) == IF key \in DOMAIN d THEN d[key] ELSE default

NoKeys == [k \in {} |-> ""]

\* the plain mappings a caller may pass as manifest: either key may be missing
DictManifests ==
    {NoKeys, [permissions |-> {CAMERA}]}
    \cup {[package_name |-> n] : n \in {"", "com.example.app"}}
    \cup {[package_name |-> n, permissions |-> ps] :
              n \in {"", "com.example.app"}, ps \in {{}, {CAMERA}}}

\* the manifest argument of a constructor, in either of its two shapes
ManifestArgs ==
    [shape : {"AXMLParser"}, value : Manifests]
        \cup [shape : {"dict"}, value : DictManifests]

\* what __init__ reads of its manifest argument: attributes of a parsed
\* manifest, get() with defaults on a mapping (which has no instrumentation)
ManifestView(arg) ==
    IF arg.shape = "AXMLParser"
    THEN arg.value
    ELSE [package_name |-> Get(arg.value, "package_name", ""),
          permissions |-> Get(arg.value, "permissions", {}),
          instrumentation |-> NoInstrumentation]

\* cls(device, manifest)
New(cls, arg) == Construct(cls, ManifestView(arg))

\* a stop without its try/except: a failing command propagates
Stop_Propagates(force, go_home_ok, cmd_ok) ==
    IF force
    THEN IF ~go_home_ok
         THEN [raised |-> "CommandFailure", commands |-> <<"go_home">>]
         ELSE [raised |-> IF cmd_ok THEN "none" ELSE "CommandFailure",
               commands |-> <<"go_home", "am force-stop">>]
    ELSE [raised |-> IF cmd_ok THEN "none" ELSE "CommandFailure",
          commands |-> <<"am stop">>]

\* stop(force): go home and force-stop, or a plain stop; whatever fails inside
\* the try is logged, and what follows it in the try is skipped
Stop(force, go_home_ok, cmd_ok) ==
    IF force
    THEN IF ~go_home_ok
         THEN [raised |-> "none", commands |-> <<"go_home">>]
         ELSE [raised |-> "none", commands |-> <<"go_home", "am force-stop">>]
    ELSE [raised |-> "none", commands |-> <<"am stop">>]

\* clean_kill's 'tries'
Tries == 3

\* the polling loop of clean_kill: home_screen_active() is asked until it
\* answers true or the tries run out
RECURSIVE PollHome(_, _, _)
PollHome(tries, answers, i) ==
    IF tries = 0 THEN [active |-> FALSE, polls |-> i - 1]
    ELSE IF answers[i] THEN [active |-> TRUE, polls |-> i]
    ELSE PollHome(tries - 1, answers, i + 1)

\* clean_kill(): home key, the polling loop, 'am kill', then the pid check;
\* the home screen is asked about again only when a pid was found
CleanKill(input_ok, answers, kill_ok, detectable, home_after) ==
    LET polled == PollHome(Tries, answers, 1)
    IN  IF ~input_ok
        THEN [raised |-> "CommandFailure", active |-> FALSE, polls |-> 0,
              commands |-> <<"input KEYCODE_HOME">>]
        ELSE IF ~kill_ok
        THEN [raised |-> "CommandFailure", active |-> polled.active,
              polls |-> polled.polls,
              commands |-> <<"input KEYCODE_HOME", "am kill">>]
        ELSE [raised |-> IF ~detectable THEN "none"
                         ELSE IF ~home_after THEN "NotBackgrounded"
                         ELSE "StillRunning",
              active |-> polled.active, polls |-> polled.polls,
              commands |-> <<"input KEYCODE_HOME", "am kill">>]

\* the device's answers to the questions of one clean_kill; a question the
\* call does not get to ask has no answer, written FALSE
KillAnswers ==
    {a \in [input_ok : BOOLEAN, answers : [1..Tries -> BOOLEAN], kill_ok : BOOLEAN,
            detectable : BOOLEAN, home_after : BOOLEAN] :
        /\ \A i \in 1..Tries :
              (~a.input_ok \/ i > PollHome(Tries, a.answers, 1).polls) => ~a.answers[i]
        /\ ~a.input_ok => ~a.kill_ok
        /\ ~a.kill_ok => ~a.detectable
        /\ ~a.detectable => ~a.home_after}

\* what device.get_version answers; "None" stands for None
Versions == {"None", "1.0", "2.0"}

\* a version property without its cache: every read asks the device
Version_AlwaysAsks(obj, answer) ==
    [obj |-> [obj EXCEPT !.version = answer], queried |-> TRUE, ret |-> answer]

\* the version property: asks the device while nothing is cached; the object
\* it leaves, whether the device was asked, and the value returned
Version(obj, answer) ==
    IF obj.version = "None"
    THEN [obj |-> [obj EXCEPT !.version = answer], queried |-> TRUE, ret |-> answer]
    ELSE [obj |-> obj, queried |-> FALSE, ret |-> obj.version]

\* an uninstall that stops the application and leaves it at that
Uninstall_StopsOnly(pkg, packages, go_home_ok, stop_ok, cmd, removed) ==
    [raised |-> "none",
     commands |-> Stop(TRUE, go_home_ok, stop_ok).commands,
     packages |-> packages]

\* uninstall(): stop(), then 'adb uninstall <package>'.  A timeout of the
\* command is ignored (the device may or may not have removed the package by
\* then); any other failure is logged if the package is still listed.  What
\* was raised, the commands issued, and the device's installed list afterwards
Uninstall(pkg, packages, go_home_ok, stop_ok, cmd, removed) ==
    [raised |-> "none",
     commands |-> Stop(TRUE, go_home_ok, stop_ok).commands \o
                  (IF cmd = "failed"
                   THEN <<"uninstall", "list_installed_packages">>
                   ELSE <<"uninstall">>),
     packages |-> IF cmd = "ok" \/ (cmd = "timeout" /\ removed)
                  THEN packages \ {pkg}
                  ELSE packages]

\* the device's answers to one uninstall; a question not asked is written
\* FALSE, and only a command that timed out leaves open what it did
UninstallAnswers ==
    {a \in [go_home_ok : BOOLEAN, stop_ok : BOOLEAN,
            cmd : {"ok", "timeout", "failed"}, removed : BOOLEAN] :
        /\ ~a.go_home_ok => ~a.stop_ok
        /\ a.cmd = "ok" => a.removed
        /\ a.cmd = "failed" => ~a.removed}

LifeFrame == UNCHANGED <<installVars, launchVars, permVars, timerVars>>

\* the frame of the calls that change the device's installed list
LifeDeviceFrame ==
    UNCHANGED <<inp, pc, how, outcome, entity, lock, proc, tmpfiles, trace,
                launchVars, permVars, timerVars>>

LifeIdle ==
    /\ ctor = [cls |-> "none"]
    /\ app = NoEntity
    /\ called = [op |-> "none"]
    /\ result = [raised |-> "none"]
    /\ before = NoEntity

\* an object is constructed from a manifest of either shape
LifeInit ==
    /\ ctor \in [cls : Variants, arg : ManifestArgs]
    /\ app = New(ctor.cls, ctor.arg)
    /\ called = [op |-> "__init__"]
    /\ result = [raised |-> IF app.ok THEN "none" ELSE app.error]
    /\ before = NoEntity
    /\ installed \in (IF app.ok THEN {{}, {app.package_name}} ELSE {{}})

\* app.stop(force)
StopCall ==
    /\ app.ok
    /\ \E force \in BOOLEAN, go_home_ok \in BOOLEAN, cmd_ok \in BOOLEAN :
         /\ called' = [op |-> "stop", force |-> force,
                       go_home_ok |-> go_home_ok, cmd_ok |-> cmd_ok]
         /\ result' = Stop(force, go_home_ok, cmd_ok)
    /\ before' = app
    /\ UNCHANGED <<ctor, app>>
    /\ LifeFrame

\* app.clean_kill()
CleanKillCall ==
    /\ app.ok
    /\ \E a \in KillAnswers :
         /\ called' = [op |-> "clean_kill", input_ok |-> a.input_ok,
                       answers |-> a.answers, kill_ok |-> a.kill_ok,
                       detectable |-> a.detectable, home_after |-> a.home_after]
         /\ result' = CleanKill(a.input_ok, a.answers, a.kill_ok, a.detectable,
                                a.home_after)
    /\ before' = app
    /\ UNCHANGED <<ctor, app>>
    /\ LifeFrame

\* app.version
VersionCall ==
    /\ app.ok
    /\ \E answer \in Versions :
         /\ called' = [op |-> "version", answer |-> answer]
         /\ app' = Version(app, answer).obj
         /\ result' = [raised |-> "none", ret |-> Version(app, answer).ret,
                       queried |-> Version(app, answer).queried]
    /\ before' = app
    /\ UNCHANGED ctor
    /\ LifeFrame

\* app.grant_permissions([permission]), with one permission given
GrantGivenCall ==
    /\ app.ok
    /\ \E requested \in {{p} : p \in PermStrings} :
       \E failing \in SUBSET Filtered(requested) :
         /\ called' = [op |-> "grant_permissions", arg |-> requested]
         /\ app' = [app EXCEPT !.granted_permissions =
                        GrantPermissions(requested, failing,
                            [granted |-> @, device |-> {}]).granted]
    /\ result' = [raised |-> "none", ret |-> app'.granted_permissions]
    /\ before' = app
    /\ UNCHANGED ctor
    /\ LifeFrame

\* app.uninstall()
UninstallCall ==
    /\ app.ok
    /\ \E a \in UninstallAnswers :
         /\ called' = [op |-> "uninstall", go_home_ok |-> a.go_home_ok,
                       stop_ok |-> a.stop_ok, cmd |-> a.cmd,
                       removed |-> a.removed, after |-> called.op]
         /\ result' = Uninstall(app.package_name, installed, a.go_home_ok,
                                a.stop_ok, a.cmd, a.removed)
         /\ installed' = result'.packages
    /\ before' = app
    /\ UNCHANGED <<ctor, app>>
    /\ LifeDeviceFrame

\* cls.from_apk(apk, device) again, for the same apk: on success the package
\* is listed and a fresh object replaces the old one; a failure propagates
FromApkAgainCall ==
    /\ app.ok
    /\ \E install_ok \in BOOLEAN :
         /\ called' = [op |-> "from_apk", install_ok |-> install_ok]
         /\ result' = [raised |-> IF install_ok THEN "none"
                                  ELSE "CommandExecutionFailure"]
         /\ app' = IF install_ok THEN New(ctor.cls, ctor.arg) ELSE app
         /\ installed' = IF install_ok THEN installed \cup {app.package_name}
                          ELSE installed
    /\ before' = app
    /\ UNCHANGED ctor
    /\ LifeDeviceFrame

LifeNext ==
    \/ StopCall
    \/ CleanKillCall
    \/ VersionCall
    \/ GrantGivenCall
    \/ UninstallCall
    \/ FromApkAgainCall

----------------------------------------------------------------------------
(* Application.in_foreground *)

SILENT_RUNNING_PACKAGES ==
    {"com.samsung.android.mtpapplication", "com.wssyncmldm",
     "com.bitbar.testdroid.monitor"}

\* the names an activity stack may hold, in either spelling
StackEntries ==
    {"com.example.app", "COM.EXAMPLE.APP", "com.wssyncmldm", "Com.WsSyncMLDM",
     "com.other"}

\* str.lower()
Lower(name) ==
    CASE name = "COM.EXAMPLE.APP" -> "com.example.app"
      [] name = "Com.Example.App" -> "com.example.app"
      [] name = "Com.WsSyncMLDM"  -> "com.wssyncmldm"
      [] OTHER                    -> name

\* what device.get_activity_stack() may report: None, or a list, top first
ActivityStacks ==
    {[is |-> "None", value |-> <<>>]}
        \cup [is : {"list"},
              value : UNION {[1..n -> StackEntries] : n \in 0..MaxStack}]

\* the while loop of in_foreground, from 'index' (counted from 0): the index
\* it ends with, or -1 when activity_stack[index] is past the end of the stack
RECURSIVE SkipSilent(_, _)
SkipSilent(activity_stack, index) ==
    IF activity_stack = <<>>
    THEN index
    ELSE IF index >= Len(activity_stack)
         THEN -1
         ELSE IF Lower(activity_stack[index + 1]) \in SILENT_RUNNING_PACKAGES
              THEN SkipSilent(activity_stack, index + 1)
              ELSE index

\* in_foreground(ignore_silent_apps): what it raises and returns
InForeground(package_name, reported, ignore_silent_apps) ==
    LET activity_stack == IF reported.is = "None" THEN <<>> ELSE reported.value
        index == IF ignore_silent_apps THEN SkipSilent(activity_stack, 0) ELSE 0
    IN  IF index = -1
        THEN [raised |-> "IndexError", ret |-> "none"]
        ELSE IF index > Len(activity_stack)
        THEN [raised |-> "none", ret |-> FALSE]
        ELSE IF index >= Len(activity_stack)
        THEN [raised |-> "IndexError", ret |-> "none"]
        ELSE [raised |-> "none",
              ret |-> Lower(activity_stack[index + 1]) = Lower(package_name)]

\* an application built from a mapping that names its package
ForegroundInit ==
    /\ ctor \in [cls : {"Application", "ServiceApplication"},
                 arg : [shape : {"dict"},
                        value : {[package_name |-> n] :
                                    n \in {"com.example.app", "Com.Example.App"}}]]
    /\ app = New(ctor.cls, ctor.arg)
    /\ called = [op |-> "__init__"]
    /\ result = [raised |-> "none"]
    /\ before = NoEntity

\* app.in_foreground(ignore_silent_apps)
InForegroundCall ==
    /\ app.ok
    /\ \E reported \in ActivityStacks, ignore_silent_apps \in BOOLEAN :
         /\ called' = [op |-> "in_foreground", stack |-> reported,
                       ignore_silent_apps |-> ignore_silent_apps]
         /\ result' = InForeground(app.package_name, reported, ignore_silent_apps)
    /\ before' = app
    /\ UNCHANGED <<ctor, app>>
    /\ LifeFrame

ForegroundNext == InForegroundCall

----------------------------------------------------------------------------
(* TestApplication.run, TestApplication.run_orchestrated *)

SERVICES == "android.support.test.services"
ORCHESTRATOR == "android.support.test.orchestrator"

\* packages a device may list as installed
DevicePackages == Packages \cup {SERVICES, ORCHESTRATOR}

\* manifests of test apks: the instrumentation element names the package under
\* test, which may be any package of the device
TestManifests ==
    [package_name : {"com.example.test"}, permissions : {{}},
     instrumentation : [present : {TRUE},
                        target_package : {"com.example.app", SERVICES},
                        runner : {"Runner"}]]

\* arguments a caller passes as options: plain, dashed, already quoted
OptionArgs == {"class", "-e", "\"a b\""}
Options == {<<>>} \cup {<<a>> : a \in OptionArgs} \cup {<<"-e", "class">>}

\* arg.startswith('"') or arg.startswith("-")
StartsWithQuoteOrDash(arg) == arg \in {"-e", "\"a b\""}

\* '"%s"' % arg unless the argument starts with a quote or a dash
Quote(arg) == IF StartsWithQuoteOrDash(arg) THEN arg ELSE "\"" \o arg \o "\""

QuoteAll(options) == [i \in 1..Len(options) |-> Quote(options[i])]

\* "/".join([self._package_name, self._runner])
Instrumentation(obj) == obj.package_name \o "/" \o obj.runner

\* Python's s < t on sets: subset and not equal
ProperSubset(s, t) == s \subseteq t /\ s # t

\* what a run call leaves: the failure raised, the commands handed to
\* device.monitor_remote_cmd, and which of them the returned handle is for
NotStarted(e) == [raised |-> e, monitored |-> <<>>, handle |-> 0]
Started(cmd) == [raised |-> "none", monitored |-> <<cmd>>, handle |-> 1]

\* a run without the check that the package under test is installed
Run_Unchecked(obj, packages, options) ==
    Started(<<"shell", "am", "instrument", "-w">> \o QuoteAll(options)
                \o <<"-r", Instrumentation(obj)>>)

\* run(*options)
Run(obj, packages, options) ==
    IF obj.target_application.package_name \notin packages
    THEN NotStarted("TargetNotInstalled")
    ELSE Started(<<"shell", "am", "instrument", "-w">> \o QuoteAll(options)
                     \o <<"-r", Instrumentation(obj)>>)

\* run_orchestrated(*options)
RunOrchestrated(obj, packages, options) ==
    IF ~ProperSubset({SERVICES, ORCHESTRATOR}, packages)
    THEN NotStarted("SupportNotInstalled")
    ELSE IF obj.target_application.package_name \notin packages
    THEN NotStarted("TargetNotInstalled")
    ELSE Started(<<"shell", "ShellMain am instrument -r -w -e -v -targetInstrumentation",
                   Instrumentation(obj)>> \o QuoteAll(options)
                     \o <<"android.support.test.orchestrator/AndroidTestOrchestrator">>)

\* a test application constructed from its manifest, on a device with any
\* set of packages installed
RunInit ==
    /\ ctor \in [cls : {"TestApplication"},
                 arg : [shape : {"AXMLParser"}, value : TestManifests]]
    /\ app = New(ctor.cls, ctor.arg)
    /\ called = [op |-> "__init__"]
    /\ result = [raised |-> IF app.ok THEN "none" ELSE app.error]
    /\ before = NoEntity
    /\ installed \in SUBSET DevicePackages

\* test_app.run(*options)
RunCall ==
    /\ app.ok /\ app.cls = "TestApplication"
    /\ \E options \in Options :
         /\ called' = [op |-> "run", options |-> options]
         /\ result' = Run(app, installed, options)
    /\ before' = app
    /\ UNCHANGED <<ctor, app>>
    /\ LifeFrame

\* test_app.run_orchestrated(*options)
RunOrchestratedCall ==
    /\ app.ok /\ app.cls = "TestApplication"
    /\ \E options \in Options :
         /\ called' = [op |-> "run_orchestrated", options |-> options]
         /\ result' = RunOrchestrated(app, installed, options)
    /\ before' = app
    /\ UNCHANGED <<ctor, app>>
    /\ LifeFrame

RunNext == RunCall \/ RunOrchestratedCall

----------------------------------------------------------------------------
(* timing.py: Timer on the asyncio event loop *)

TimerTasks == 1..MaxStarts

\* the timeout handle of a task's wait_for is due once the duration has passed
Due_Never(t) == FALSE

Due(t) == elapsed[t]

\* an except clause that catches whatever is raised inside the try
Caught_AnyException(exc) == TRUE

\* 'except asyncio.TimeoutError' of timer()
Caught(exc) == exc = "TimeoutError"

\* a mark_end that only checks for a used-up timer
MarkEndRaises_ChecksFutureOnly == t_future = "None"

\* the guard of mark_end: no future left, or no task made yet
MarkEndRaises == t_future = "None" \/ t_task = 0

TimerFrame == UNCHANGED <<installVars, launchVars, permVars, lifeVars>>

TimerIdle ==
    /\ t_future = "None"
    /\ fut = "pending"
    /\ t_task = 0
    /\ tpc = [t \in TimerTasks |-> "absent"]
    /\ cancel_req = [t \in TimerTasks |-> FALSE]
    /\ elapsed = [t \in TimerTasks |-> FALSE]
    /\ loop_stopped = FALSE
    /\ ended = "none"
    /\ end_called = FALSE
    /\ in_time = FALSE

\* Timer(duration): a pending future, no task
TimerInit ==
    /\ t_future = "future"
    /\ fut = "pending"
    /\ t_task = 0
    /\ tpc = [t \in TimerTasks |-> "absent"]
    /\ cancel_req = [t \in TimerTasks |-> FALSE]
    /\ elapsed = [t \in TimerTasks |-> FALSE]
    /\ loop_stopped = FALSE
    /\ ended = "none"
    /\ end_called = FALSE
    /\ in_time = FALSE

\* timer.mark_start(name): create_task(timer()); the task runs later
MarkStart ==
    /\ ~loop_stopped
    /\ t_task < MaxStarts
    /\ t_task' = t_task + 1
    /\ tpc' = [tpc EXCEPT ![t_task + 1] = "created"]
    /\ UNCHANGED <<t_future, fut, cancel_req, elapsed, loop_stopped, ended,
                   end_called, in_time>>
    /\ TimerFrame

\* timer.mark_end(name): the guard, then set_result (which raises on a future
\* that is no longer pending), then cancel() of the last task
MarkEnd ==
    /\ ~loop_stopped
    /\ end_called' = TRUE
    /\ in_time' = (in_time \/ (t_task # 0 /\ \A t \in TimerTasks : ~elapsed[t]))
    /\ IF MarkEndRaises
       THEN /\ ended' = "fault"
            /\ UNCHANGED <<fut, cancel_req>>
       ELSE IF fut # "pending"
       THEN /\ ended' = "InvalidStateError"
            /\ UNCHANGED <<fut, cancel_req>>
       ELSE /\ fut' = "result"
            /\ IF t_task = 0
               THEN /\ ended' = "AttributeError"
                    /\ UNCHANGED cancel_req
               ELSE /\ ended' = "ok"
                    /\ cancel_req' =
                           [cancel_req EXCEPT ![t_task] =
                                tpc[t_task] \in {"created", "waiting", "expired", "timing_out"}]
    /\ UNCHANGED <<t_future, t_task, tpc, elapsed, loop_stopped>>
    /\ TimerFrame

\* the loop runs a new task's first step: a cancelled task never enters its
\* body; otherwise wait_for(self._future, timeout) is entered, which fails on
\* None, returns at once on a finished future, and else waits
TaskStart(t) ==
    /\ ~loop_stopped
    /\ tpc[t] = "created"
    /\ IF cancel_req[t]
       THEN /\ tpc' = [tpc EXCEPT ![t] = "cancelled"]
            /\ UNCHANGED <<t_future, loop_stopped>>
       ELSE IF t_future = "None"
       THEN /\ tpc' = [tpc EXCEPT ![t] = "failed"]
            /\ UNCHANGED <<t_future, loop_stopped>>
       ELSE IF fut = "pending"
       THEN /\ tpc' = [tpc EXCEPT ![t] = "waiting"]
            /\ UNCHANGED <<t_future, loop_stopped>>
       ELSE IF fut = "result"
       THEN /\ tpc' = [tpc EXCEPT ![t] = "done"]
            /\ t_future' = "None"
            /\ UNCHANGED loop_stopped
       ELSE IF Caught("CancelledError")
       THEN /\ tpc' = [tpc EXCEPT ![t] = "done"]
            /\ t_future' = "None"
            /\ loop_stopped' = TRUE
       ELSE /\ tpc' = [tpc EXCEPT ![t] = "cancelled"]
            /\ UNCHANGED <<t_future, loop_stopped>>
    /\ UNCHANGED <<fut, t_task, cancel_req, elapsed, ended, end_called, in_time>>
    /\ TimerFrame

\* the duration passes while a task waits
Elapse(t) ==
    /\ ~loop_stopped
    /\ tpc[t] = "waiting"
    /\ ~elapsed[t]
    /\ elapsed' = [elapsed EXCEPT ![t] = TRUE]
    /\ UNCHANGED <<t_future, fut, t_task, tpc, cancel_req, loop_stopped, ended,
                   end_called, in_time>>
    /\ TimerFrame

\* the loop runs the due timeout handle of a wait that nothing has woken yet
Expire(t) ==
    /\ ~loop_stopped
    /\ tpc[t] = "waiting"
    /\ Due(t)
    /\ fut = "pending"
    /\ ~cancel_req[t]
    /\ tpc' = [tpc EXCEPT ![t] = "expired"]
    /\ UNCHANGED <<t_future, fut, t_task, cancel_req, elapsed, loop_stopped, ended,
                   end_called, in_time>>
    /\ TimerFrame

\* the task leaves wait_for without a timeout: cancelled (raising on, or
\* returning the result already set, as the asyncio of the build has it), or
\* woken by the future; then 'self._future = None' when the body goes on
Resume(t) ==
    /\ ~loop_stopped
    /\ tpc[t] \in {"waiting", "expired"}
    /\ \/ /\ cancel_req[t]
          /\ \/ /\ tpc' = [tpc EXCEPT ![t] = "done"]
                /\ t_future' = "None"
                /\ UNCHANGED loop_stopped
             \/ IF Caught("CancelledError")
                THEN /\ tpc' = [tpc EXCEPT ![t] = "done"]
                     /\ t_future' = "None"
                     /\ loop_stopped' = TRUE
                ELSE /\ tpc' = [tpc EXCEPT ![t] = "cancelled"]
                     /\ UNCHANGED <<t_future, loop_stopped>>
       \/ /\ ~cancel_req[t]
          /\ fut = "result"
          /\ tpc' = [tpc EXCEPT ![t] = "done"]
          /\ t_future' = "None"
          /\ UNCHANGED loop_stopped
       \/ /\ ~cancel_req[t]
          /\ fut = "cancelled"
          /\ IF Caught("CancelledError")
             THEN /\ tpc' = [tpc EXCEPT ![t] = "done"]
                  /\ t_future' = "None"
                  /\ loop_stopped' = TRUE
             ELSE /\ tpc' = [tpc EXCEPT ![t] = "cancelled"]
                  /\ UNCHANGED <<t_future, loop_stopped>>
    /\ UNCHANGED <<fut, t_task, cancel_req, elapsed, ended, end_called, in_time>>
    /\ TimerFrame

\* the task resumes after its timeout handle ran on a future still pending:
\* wait_for cancels the future and waits for that to settle
CancelFuture(t) ==
    /\ ~loop_stopped
    /\ tpc[t] = "expired"
    /\ ~cancel_req[t]
    /\ fut = "pending"
    /\ fut' = "cancelled"
    /\ tpc' = [tpc EXCEPT ![t] = "timing_out"]
    /\ UNCHANGED <<t_future, t_task, cancel_req, elapsed, loop_stopped, ended,
                   end_called, in_time>>
    /\ TimerFrame

\* wait_for raises TimeoutError: the except clause stops the loop, then
\* 'self._future = None'
TimeOut(t) ==
    /\ ~loop_stopped
    /\ tpc[t] = "timing_out"
    /\ IF Caught("TimeoutError")
       THEN loop_stopped' = TRUE
       ELSE UNCHANGED loop_stopped
    /\ tpc' = [tpc EXCEPT ![t] = IF Caught("TimeoutError") THEN "done" ELSE "failed"]
    /\ t_future' = IF Caught("TimeoutError") THEN "None" ELSE t_future
    /\ UNCHANGED <<fut, t_task, cancel_req, elapsed, ended, end_called, in_time>>
    /\ TimerFrame

\* what the running event loop does on its own
LoopStep(t) == TaskStart(t) \/ Expire(t) \/ Resume(t) \/ CancelFuture(t) \/ TimeOut(t)

TimerNext ==
    \/ MarkStart
    \/ MarkEnd
    \/ \E t \in TimerTasks : Elapse(t)
    \/ \E t \in TimerTasks : LoopStep(t)

InstallSpecInit == InstallInit /\ LaunchIdle /\ PermIdle /\ LifeIdle /\ TimerIdle
InstallSpec == InstallSpecInit /\ [][InstallNext]_vars

\* the event loop is running and the device answers: a step of a call that
\* stays possible is eventually taken (a ready coroutine is resumed, a started
\* install process exits or the bounded wait for it times out)
FairInstallSpec ==
    InstallSpec /\ \A t \in Tasks : WF_vars(InstallStep(t))

LaunchSpecInit == LaunchInit /\ InstallIdle /\ PermIdle /\ LifeIdle /\ TimerIdle
LaunchSpec == LaunchSpecInit /\ [][LaunchNext]_vars

PermSpecInit == PermInit /\ InstallIdle /\ LaunchIdle /\ LifeIdle /\ TimerIdle
PermSpec == PermSpecInit /\ [][PermNext]_vars

LifeSpecInit == LifeInit /\ InstallCallsIdle /\ LaunchIdle /\ PermIdle /\ TimerIdle
LifeSpec == LifeSpecInit /\ [][LifeNext]_vars

RunSpecInit == RunInit /\ InstallCallsIdle /\ LaunchIdle /\ PermIdle /\ TimerIdle
RunSpec == RunSpecInit /\ [][RunNext]_vars

ForegroundSpecInit ==
    ForegroundInit /\ InstallIdle /\ LaunchIdle /\ PermIdle /\ TimerIdle
ForegroundSpec == ForegroundSpecInit /\ [][ForegroundNext]_vars

TimerSpecInit == TimerInit /\ InstallIdle /\ LaunchIdle /\ PermIdle /\ LifeIdle
TimerSpec == TimerSpecInit /\ [][TimerNext]_vars

\* the event loop is running: a step of a timer task that stays possible is
\* eventually taken
FairTimerSpec ==
    TimerSpec /\ \A t \in TimerTasks : WF_vars(LoopStep(t))

----------------------------------------------------------------------------
(* Installation: properties *)

Running == {t \in Tasks : proc[t] = "running"}

\* C1: however many asynchronous installs are bound to the device, at most one
\* 'pm install' process is running at any time.
C1_AtMostOneInstallRunning == Cardinality(Running) <= 1

\* one install's process runs while another install waits for the lock
C1_Witness ==
    \E t \in Tasks, u \in Tasks :
        t # u /\ proc[t] = "running" /\ pc[u] = "acquire"

\* C2: an install holds the device lock only between entering and leaving the
\* async with; whichever way the install ended, it does not hold the lock
\* afterwards, and once every install has ended the lock is free.
C2_LockFreeAfterInstall ==
    /\ \A t \in Tasks : lock = t => pc[t] \in {"starting", "waiting", "exiting"}
    /\ (\A t \in Tasks : pc[t] \in {"done", "absent"}) => lock = 0

\* two installs that took the lock have ended, one because the callback raised
\* and one because the bounded wait timed out, and the lock is free
C2_Witness ==
    \E t \in Tasks, u \in Tasks :
        /\ pc[t] = "done" /\ how[t] = "callback_raised"
        /\ pc[u] = "done" /\ how[u] = "wait_timeout"
        /\ lock = 0

\* C3 (as claimed): a factory that returned an entity did so for a package
\* that is in the device's installed-package list.
C3_ReturnedOnlyIfInstalled ==
    \A t \in Tasks : outcome[t] = "returned" => Pkg(t) \in installed

\* the manifest is one the constructor of the variant accepts
Constructible(i) ==
    /\ i.manifest.package_name # ""
    /\ i.cls = "TestApplication" =>
          /\ i.manifest.instrumentation.present
          /\ i.manifest.instrumentation.target_package # ""
          /\ i.manifest.instrumentation.runner # ""

InstalledOk(t) == pc[t] = "done" /\ how[t] = "exit_zero" /\ Pkg(t) \in installed

ReturnedAsCalled(t) ==
    /\ outcome[t] = "returned"
    /\ entity[t].ok
    /\ entity[t].cls = inp[t].cls
    /\ entity[t].package_name = Pkg(t)
    /\ entity[t].granted_permissions = {}

Steps(t) == {trace[t][i] : i \in 1..Len(trace[t])}
StepCount(t, S) == Cardinality({i \in 1..Len(trace[t]) : trace[t][i] \in S})
RmSteps == {"rm", "rm failed"}

\* the call t held the device lock when it took its i-th step
LockHeldAt(t, i) ==
    \E j \in 1..(i - 1) :
        /\ trace[t][j] = "lock"
        /\ \A k \in (j + 1)..(i - 1) : trace[t][k] # "unlock"

AsyncEnded(t) == pc[t] = "done" /\ inp[t].form = "async"

OutcomeOf(t) ==
    CASE how[t] = "push_failed" -> "IOError"
      [] how[t] = "exit_zero" ->
            IF Constructible(inp[t]) THEN "returned"
            ELSE Construct(inp[t].cls, inp[t].manifest).error
      [] OTHER -> FailureOf(how[t])

\* C23: on every exit path of the asynchronous install the removal of the temp
\* file is attempted exactly once, as the last step and not before the install
\* step has ended; and whether the removal failed does not change the outcome.
C23_TempRemovalOnceOnEveryExit ==
    \A t \in Tasks :
        /\ inp[t].form = "async" /\ pc[t] # "done" => StepCount(t, RmSteps) = 0
        /\ AsyncEnded(t) =>
              /\ StepCount(t, RmSteps) = 1
              /\ trace[t][Len(trace[t])] \in RmSteps
              /\ outcome[t] = OutcomeOf(t)

\* two installs whose removal failed: one succeeded and returned its entity,
\* the other timed out in the wait and raised the timeout
C23_Witness ==
    \E t \in Tasks, u \in Tasks :
        /\ AsyncEnded(t) /\ how[t] = "exit_zero" /\ outcome[t] = "returned"
        /\ trace[t][Len(trace[t])] = "rm failed"
        /\ AsyncEnded(u) /\ how[u] = "wait_timeout" /\ outcome[u] = "TimeoutError"
        /\ trace[u][Len(trace[u])] = "rm failed"

\* C24: after a non-zero exit of the install process the asynchronous install
\* raises the install failure; from_apk_async constructs and returns no entity.
C24_NonZeroExitIsInstallFailure ==
    \A t \in Tasks :
        (inp[t].form = "async" /\ how[t] = "exit_nonzero") =>
            /\ entity[t] = NoEntity
            /\ outcome[t] \in {"pending", "CommandExecutionFailure"}
            /\ pc[t] = "done" => outcome[t] = "CommandExecutionFailure"

\* an asynchronous install of a constructible TestApplication ended after a
\* non-zero exit of 'pm install'
C24_Witness ==
    \E t \in Tasks :
        /\ AsyncEnded(t) /\ how[t] = "exit_nonzero"
        /\ inp[t].cls = "TestApplication" /\ Constructible(inp[t])
        /\ "wait" \in Steps(t)
        /\ outcome[t] = "CommandExecutionFailure" /\ entity[t] = NoEntity

\* C25 (as claimed): in every asynchronous install the push runs while that
\* install holds the device lock.
C25_PushUnderLock ==
    \A t \in Tasks :
        \A i \in 1..Len(trace[t]) : trace[t][i] = "push" => LockHeldAt(t, i)

\* C26 (as claimed): the synchronous from_apk pushes to the temp path, installs
\* from it and removes the temp file, as from_apk_async does.
C26_Original ==
    \A t \in Tasks :
        (pc[t] = "done" /\ inp[t].form = "sync") =>
            /\ "push" \in Steps(t)
            /\ "pm install" \in Steps(t)
            /\ StepCount(t, RmSteps) = 1

\* C26 (amended): the synchronous from_apk issues the one command 'adb install'
\* of the local file: no push, no temp file, no lock, no removal.  When the
\* command succeeded it constructs the entity as from_apk_async does, otherwise
\* it raises the install failure.
C26_SyncIsOneAdbInstall ==
    \A t \in Tasks :
        (pc[t] = "done" /\ inp[t].form = "sync") =>
            /\ trace[t] = <<"adb install">>
            /\ Pkg(t) \notin tmpfiles
            /\ proc[t] = "none"
            /\ outcome[t] = OutcomeOf(t)

\* a synchronous install of a service application returned its entity
C26_Witness ==
    \E t \in Tasks :
        /\ pc[t] = "done" /\ inp[t].form = "sync"
        /\ inp[t].cls = "ServiceApplication"
        /\ outcome[t] = "returned" /\ Pkg(t) \in installed
        /\ trace[t] = <<"adb install">>

\* C28: a supplied callback is invoked at most once, right after the install
\* process was started and before its completion is awaited, while the install
\* holds the device lock; once when the process was started, and never when it
\* was not or when no callback was supplied.
C28_CallbackOnceAfterStart ==
    \A t \in Tasks :
        /\ StepCount(t, {"callback"}) <= 1
        /\ StepCount(t, {"callback"}) =
              (IF inp[t].callback /\ "pm install" \in Steps(t) THEN 1 ELSE 0)
        /\ \A i \in 1..Len(trace[t]) :
              trace[t][i] = "callback" =>
                 /\ i > 1 /\ trace[t][i - 1] = "pm install"
                 /\ LockHeldAt(t, i)
                 /\ \A j \in 1..i : trace[t][j] # "wait"
        /\ ("callback" \in Steps(t) /\ "unlock" \notin Steps(t)) =>
              /\ lock = t
              /\ proc[t] # "none"

\* the callback was called and returned, the install then waits for the
\* process while holding the lock
C28_Witness ==
    \E t \in Tasks :
        /\ inp[t].callback /\ pc[t] = "waiting" /\ lock = t
        /\ trace[t] = <<"push", "lock", "pm install", "callback", "wait">>

\* C31 (as claimed): with concurrent asynchronous installs of one package,
\* while the install process of one of them is started and has not ended, the
\* temp file it pushed is present on the device.
C31_TempFilePresentWhileInstalling ==
    \A t \in Tasks, u \in Tasks :
        (/\ t # u /\ Pkg(t) = Pkg(u)
         /\ inp[t].form = "async" /\ inp[u].form = "async"
         /\ pc[u] # "absent"
         /\ "push" \in Steps(t) /\ proc[t] = "running")
            => Pkg(t) \in tmpfiles

\* C35 (as claimed): every asynchronous install that requests the device lock
\* eventually holds it.
C35_Original ==
    \A t \in Tasks : (pc[t] = "acquire") ~> (lock = t)

\* C35 (amended): every install call eventually ends, having returned or
\* raised, and an asynchronous install that requested the device lock (its push
\* succeeded) has by then held it unless it was cancelled: no interleaving
\* leaves a request for the lock waiting forever.
C35_InstallsAcquireAndTerminate ==
    /\ [](\A t \in Tasks :
            (/\ pc[t] = "done" /\ "push" \in Steps(t)
             /\ how[t] \notin {"push_failed", "cancelled"}) => "lock" \in Steps(t))
    /\ <>(\A t \in Tasks :
            /\ pc[t] \in {"absent", "done"}
            /\ pc[t] = "done" => outcome[t] # "pending")

\* one install has held the lock and ended with a timeout of its wait, and
\* another, whose request it had kept waiting, holds the lock now
C35_Witness ==
    \E t \in Tasks, u \in Tasks :
        /\ pc[t] = "done" /\ how[t] = "wait_timeout" /\ "lock" \in Steps(t)
        /\ lock = u /\ pc[u] = "waiting"

\* the manifest lacks a non-empty instrumentation target package or runner
LacksInstrumentation(i) ==
    \/ ~i.manifest.instrumentation.present
    \/ i.manifest.instrumentation.target_package = ""
    \/ i.manifest.instrumentation.runner = ""

\* C36 (as claimed): a TestApplication factory given a manifest without a
\* non-empty instrumentation target package or runner issues no command to the
\* device and leaves the installed-package set as it was (empty); once it has
\* ended, it has raised.
C36_TestApplicationFailsBeforeInstall ==
    \A t \in Tasks :
        (inp[t].cls = "TestApplication" /\ LacksInstrumentation(inp[t])) =>
            /\ trace[t] = <<>>
            /\ installed = {}
            /\ pc[t] = "done" => outcome[t] \notin {"pending", "returned"}

----------------------------------------------------------------------------
(* in_foreground: properties *)

\* the stack as a sequence, and the positions of its entries that count: all
\* of them, or those that are not silent packages
StackOf(reported) == IF reported.is = "None" THEN <<>> ELSE reported.value
Counting(reported, ignore_silent_apps) ==
    {i \in 1..Len(StackOf(reported)) :
        ~ignore_silent_apps
            \/ Lower(StackOf(reported)[i]) \notin SILENT_RUNNING_PACKAGES}
First(S) == CHOOSE i \in S : \A j \in S : i <= j

\* C33 (as claimed): in_foreground returns a boolean without faulting for
\* every stack the device reports: False for an empty or absent stack and for
\* one of silent packages only, and otherwise whether the first entry that
\* counts is the package name, compared without regard to case.
C33_InForegroundTotal ==
    called.op = "in_foreground" =>
        LET c == Counting(called.stack, called.ignore_silent_apps)
        IN  /\ result.raised = "none"
            /\ result.ret = IF c = {} THEN FALSE
                            ELSE Lower(StackOf(called.stack)[First(c)])
                                     = Lower(app.package_name)

----------------------------------------------------------------------------
(* Launch: properties *)

IsProcessLine(line) == In(PROCESS, line) /\ In(PACKAGE, line)
IsDisplayedLine(line) == In(DISPLAYED, line) /\ In(PACKAGE, line)

\* a fatal-exception line is followed, at a later position, by a line with
\* "Process" and the package name
CrashPair(s) ==
    \E i \in 1..Len(s), j \in 1..Len(s) :
        i < j /\ In(FATAL, s[i]) /\ IsProcessLine(s[j])

\* the same, with both lines after the CatchCount lines consumed before the
\* start, and no Displayed line of the package from there up to the second one
CrashPairFirst(s) ==
    \E i \in 1..Len(s), j \in 1..Len(s) :
        /\ CatchCount < i /\ i < j
        /\ In(FATAL, s[i]) /\ IsProcessLine(s[j])
        /\ \A k \in (CatchCount + 1)..(j - 1) : ~IsDisplayedLine(s[k])

Finished == lpc = "done" /\ lresult \notin {"timeout", "start_failed"}

\* C5 (as claimed): for every stream holding a fatal-exception line followed
\* later by a "Process ... <package>" line, a launch that ran to its end (no
\* timeout, no failure of the start command) raised the crash failure.
C5_Original == (Finished /\ CrashPair(stream)) => lresult = "crashed"

\* C5 (amended): the same when both lines come after the two lines consumed
\* before the start and no "Displayed ... <package>" line is read before the
\* second of them; a Displayed line later in the stream does not matter.
C5_CrashRaised == (Finished /\ CrashPairFirst(stream)) => lresult = "crashed"

\* the crash was raised although a Displayed line of the package comes later
C5_Witness ==
    /\ lresult = "crashed" /\ CrashPairFirst(stream)
    /\ ~In(FATAL, stream[pos])
    /\ \E k \in (pos + 1)..Len(stream) : IsDisplayedLine(stream[k])

\* C6 (as claimed): with a timeout given and a stream that emits neither a
\* "Displayed" nor a "FATAL EXCEPTION" line, launch never returns normally,
\* whether the stream stays silent or ends.
C6_NeverReturnsWithoutMarkers ==
    (timeout /\ \A i \in 1..Len(stream) :
                   ~In(DISPLAYED, stream[i]) /\ ~In(FATAL, stream[i]))
        => lresult # "returned"

\* C7 (as claimed): the start command is issued only once at least two lines
\* have been consumed from the log stream.
C7_StartAfterTwoLines == startedAt # -1 => startedAt >= 2

\* C29 (as claimed): a line with "Displayed" and the package name that the
\* scan reaches (no crash having been raised before it) ends the scan with
\* success: launch has returned normally and it is the last line read.
C29_DisplayedEndsScan ==
    startedAt >= 0 =>
        \A k \in (startedAt + 1)..pos :
            IsDisplayedLine(stream[k]) =>
                k = pos /\ lpc = "done" /\ lresult = "returned"

\* C32 (as claimed): launch returns normally only if a line with "Displayed"
\* and the package name was read after the start command was issued; not, in
\* particular, when the stream ends without such a line.
C32_ReturnsOnlyOnDisplayed ==
    lresult = "returned" =>
        /\ startedAt >= 0
        /\ \E k \in (startedAt + 1)..pos : IsDisplayedLine(stream[k])

----------------------------------------------------------------------------
(* Permissions: properties *)

ClearDataReturned(regrant) ==
    last = [op |-> "clear_data", arg |-> regrant, raised |-> FALSE]

\* C8 (as claimed): after clear_data(regrant_permissions=True) has returned,
\* granted_permissions is exactly the set granted before the clear, the empty
\* set included.
C8_RegrantRestoresGranted ==
    ClearDataReturned(TRUE) => granted_permissions = pre_granted

\* C9: after clear_data(regrant_permissions=False) has returned,
\* granted_permissions is empty and the call issued no grant command.
C9_ClearWithoutRegrant ==
    ClearDataReturned(FALSE) => (granted_permissions = {} /\ issued = EmptyBag)

\* permissions were granted and recorded, then cleared without regrant
C9_Witness ==
    ClearDataReturned(FALSE) /\ pre_granted = {CAMERA, LOCATION}

\* C10: a grant_permissions call that repeats the call before it leaves
\* granted_permissions as the first of the two left it.
C10_GrantIdempotent == again => granted_permissions = pre_granted

\* grant_permissions was called twice with a set that holds a dangerous
\* permission, on an application that had another one recorded before
C10_Witness ==
    /\ again
    /\ CAMERA \in last.arg
    /\ granted_permissions = {CAMERA, LOCATION}

\* what the last grant_permissions call worked from: the permissions it was
\* given, or the declared ones when it was given none
Considered == IF last.arg = {} THEN permissions ELSE last.arg

\* the dangerous ones among them
Dangerous == Considered \cap DANGEROUS_PERMISSIONS

\* C11: a failing 'pm grant' never makes grant_permissions raise: whichever of
\* the dangerous permissions fail, the call returns, has issued exactly one
\* grant command for each dangerous permission, and every one of them, failed
\* or not, is in granted_permissions afterwards.
C11_GrantFailuresAbsorbed ==
    (last.op = "grant_permissions" /\ Dangerous # {}) =>
        /\ ~last.raised
        /\ issued = [p \in Dangerous |-> 1]
        /\ failed \subseteq Dangerous
        /\ Dangerous \subseteq granted_permissions
        /\ ret = granted_permissions

\* a call in which one of two dangerous permissions failed to be granted
C11_Witness ==
    /\ last.op = "grant_permissions"
    /\ Cardinality(Dangerous) = 2
    /\ Cardinality(failed) = 1
    /\ ~last.raised

----------------------------------------------------------------------------
(* One application object: properties *)

\* C13: clean_kill, its device commands having gone through, raises when the
\* home screen never became active during the polling or when the process is
\* still detectable after the kill, and returns normally only when the home
\* screen became active and no process is detectable.
C13_CleanKillRaisesUnlessHomeAndGone ==
    (called.op = "clean_kill" /\ called.input_ok /\ called.kill_ok) =>
        (result.raised = "none" <=> (result.active /\ ~called.detectable))

\* C14: stop never raises, with or without force and whichever of its device
\* commands fails, and it leaves the object (package_name,
\* granted_permissions, cached version) as it was.
C14_StopNeverRaises ==
    called.op = "stop" => (result.raised = "none" /\ app = before)

\* a forced stop whose go-home failed, on an object with a recorded grant and
\* a cached version
C14_Witness ==
    /\ called.op = "stop"
    /\ called.force /\ ~called.go_home_ok
    /\ result.raised = "none"
    /\ app.ok /\ app.granted_permissions # {} /\ app.version # "None"

\* C37 (as claimed): a forced stop issues the force-stop command after its
\* attempt to go to the home screen, also when that attempt failed.
C37_ForceStopAlwaysIssued ==
    (called.op = "stop" /\ called.force) =>
        result.commands = <<"go_home", "am force-stop">>

\* the package name the constructor's manifest argument carries; a mapping
\* without the key carries none
ManifestName ==
    IF ctor.arg.shape = "dict" /\ "package_name" \notin DOMAIN ctor.arg.value
    THEN ""
    ELSE ctor.arg.value.package_name

\* C20: constructing an Application from a manifest of either shape fails when
\* the manifest's package name is empty or missing and succeeds when it is not
\* empty; the object's package_name is the manifest's, and stays so under
\* every later operation.
C20_PackageNameFixedAtConstruction ==
    /\ ManifestName = "" => (~app.ok /\ app.error = "ValueError")
    /\ (ManifestName # "" /\ ctor.cls # "TestApplication") => app.ok
    /\ app.ok => app.package_name = ManifestName

\* an object built from a plain mapping, after operations that changed its
\* recorded grants and its cached version
C20_Witness ==
    /\ app.ok
    /\ ctor.arg.shape = "dict"
    /\ app.package_name = "com.example.app"
    /\ app.granted_permissions # {}
    /\ app.version # "None"
    /\ called.op = "clean_kill"

----------------------------------------------------------------------------
(* TestApplication.run, run_orchestrated: properties *)

TargetInstalled == app.target_application.package_name \in installed

\* C18: run raises, handing no command to the device, whenever the package
\* under test is not in the device's installed list; when it is, run hands
\* exactly one instrumentation command over and returns the handle for it.
C18_RunNeedsTargetInstalled ==
    called.op = "run" =>
        IF TargetInstalled
        THEN result.raised = "none" /\ Len(result.monitored) = 1 /\ result.handle = 1
        ELSE result.raised # "none" /\ result.monitored = <<>> /\ result.handle = 0

\* a run with the package under test installed, its plain option quoted
C18_Witness ==
    /\ called.op = "run"
    /\ TargetInstalled
    /\ called.options = <<"class">>
    /\ result.monitored =
           << <<"shell", "am", "instrument", "-w", "\"class\"", "-r",
                "com.example.test/Runner">> >>

\* C19: run_orchestrated raises, handing no command to the device, exactly when
\* one of the two support packages or the package under test is missing from
\* the installed list; with all three installed it hands one command over and
\* returns the handle for it.
C19_OrchestratedNeedsAllThree ==
    called.op = "run_orchestrated" =>
        IF {SERVICES, ORCHESTRATOR} \subseteq installed /\ TargetInstalled
        THEN result.raised = "none" /\ Len(result.monitored) = 1 /\ result.handle = 1
        ELSE result.raised # "none" /\ result.monitored = <<>> /\ result.handle = 0

----------------------------------------------------------------------------
(* Timer: properties *)

\* a wait of the timer has run out
RanOut == \E t \in TimerTasks : elapsed[t]

\* C15 as stated: once mark_start was called and the duration has run out with
\* no mark_end called so far, the timer eventually stops the event loop.
C15_Original == (RanOut /\ ~end_called) ~> loop_stopped

\* C15: once mark_start was called and the duration has run out with no
\* mark_end called so far, the timer eventually stops the event loop unless
\* mark_end is called before the timer task has acted on the expiry.
C15_ExpiryStopsLoop == (RanOut /\ ~end_called) ~> (loop_stopped \/ end_called)

\* the loop stopped by the timer, mark_end never having been called
C15_Witness == loop_stopped /\ ~end_called /\ RanOut

\* C16: after a mark_end that follows a mark_start and comes before any wait
\* of the timer has run out, the completion signal is set and the timer never
\* stops the event loop, however its tasks interleave with the callers.
C16_EndInTimeDisarms == in_time => (~loop_stopped /\ fut = "result")

\* mark_end came in time while the task was waiting; the cancelled task has
\* since left its wait, and the duration has passed for another wait
C16_Witness ==
    /\ in_time
    /\ ended = "ok"
    /\ tpc[t_task] = "cancelled"
    /\ \E t \in TimerTasks : tpc[t] = "done" /\ elapsed[t]

\* C17: as long as mark_start was never called, a mark_end raises and leaves
\* the timer as constructed: no task, the future in place and pending.
C17_EndBeforeStartRaises ==
    t_task = 0 =>
        /\ ended \in {"none", "fault"}
        /\ end_called => ended = "fault"
        /\ t_future = "future" /\ fut = "pending"
        /\ \A t \in TimerTasks : tpc[t] = "absent" /\ ~cancel_req[t]

\* mark_end was called on a timer never started
C17_Witness == t_task = 0 /\ end_called /\ ended = "fault"

\* C34 (as claimed): a mark_end made once mark_start was called on the timer
\* completes without raising, whatever calls and steps of the loop came before.
C34_MarkEndAfterStartCompletes ==
    [][(MarkEnd /\ t_task # 0) => ended' = "ok"]_vars

----------------------------------------------------------------------------
(* TestApplication.__init__: properties *)

\* the instrumentation element of the constructor's manifest argument; a plain
\* mapping has none
DeclaredInstrumentation ==
    IF ctor.arg.shape = "AXMLParser"
    THEN ctor.arg.value.instrumentation
    ELSE NoInstrumentation

\* C21: constructing a TestApplication fails for every manifest without an
\* instrumentation element, or with an empty target package, or with an empty
\* runner; where it succeeds both are non-empty and the target application's
\* package_name is the declared target package.
C21_TestApplicationNeedsInstrumentation ==
    ctor.cls = "TestApplication" =>
        LET instr == DeclaredInstrumentation
        IN  /\ (~instr.present \/ instr.target_package = "" \/ instr.runner = "")
                   => ~app.ok
            /\ app.ok =>
                   /\ instr.target_package # "" /\ instr.runner # ""
                   /\ app.target_application.ok
                   /\ app.target_application.package_name = instr.target_package
                   /\ app.runner = instr.runner

\* a test application constructed from a manifest with both, and used since
C21_Witness ==
    /\ ctor.cls = "TestApplication"
    /\ app.ok
    /\ app.target_application.package_name = "com.example.app"
    /\ called.op = "stop"

----------------------------------------------------------------------------
(* Application.version: properties *)

\* C30: a read of version asks the device only while no non-null version has
\* been obtained: once one was, every later read returns it without asking,
\* whatever the device would answer by then; while the device answers null,
\* every read asks again.
C30_VersionCachedOnceNonNull ==
    called.op = "version" =>
        IF before.version # "None"
        THEN /\ ~result.queried
             /\ result.ret = before.version
             /\ app.version = before.version
        ELSE /\ result.queried
             /\ result.ret = called.answer
             /\ app.version = called.answer

\* a read answered from the cache while the device would answer otherwise
C30_Witness ==
    /\ called.op = "version"
    /\ before.version = "1.0"
    /\ called.answer = "2.0"
    /\ result.ret = "1.0"
    /\ ~result.queried

----------------------------------------------------------------------------
(* Application.uninstall: properties *)

====
